---- MODULE Spec2Model ----
(***************************************************************************)
(* A model of main.py: the name cleaner, the surname normalizer, the name  *)
(* matcher, the "A vs B" pattern scan and the aggregation loop of          *)
(* get_fighter_pairs_from_ufc_event, and the module-level script that      *)
(* writes the spreadsheet or reports that nothing was found.               *)
(*                                                                         *)
(* Python strings are TLA+ strings; the character at index i of s is       *)
(* SubSeq(s, i, i) (indices start at 1).                                   *)
(***************************************************************************)
EXTENDS Integers, Sequences, FiniteSets, TLC

----------------------------------------------------------------------------
(* Characters and the classes the regular expressions use.                 *)

Uppers == "ABCDEFGHIJKLMNOPQRSTUVWXYZ"
Lowers == "abcdefghijklmnopqrstuvwxyz"
Digits == "0123456789"
\* The characters of the model's texts, in code-point order.
Ascii == "\n #'-0123456789ABCDEFGHIJKLMNOPQRSTUVWXYZabcdefghijklmnopqrstuvwxyz|"

Char(s, i) == SubSeq(s, i, i)

CharsOf(s) == {Char(s, i) : i \in 1..Len(s)}

UpperSet == CharsOf(Uppers)
LowerSet == CharsOf(Lowers)
DigitSet == CharsOf(Digits)
\* \s
SpaceSet == {" ", "\n"}
\* [a-zA-Z\s\-\']
NameSet == UpperSet \cup LowerSet \cup SpaceSet \cup {"-", "'"}
\* \w, as far as \b needs it
WordSet == UpperSet \cup LowerSet \cup DigitSet
\* what is not whitespace
NonSpaceSet == CharsOf(Ascii) \ SpaceSet
\* what '.' matches
NonNewlineSet == CharsOf(Ascii) \ {"\n"}

\* str.lower() on one character
LowerOf == [c \in CharsOf(Ascii) |->
              IF c \in UpperSet
              THEN Char(Lowers, CHOOSE i \in 1..26 : Char(Uppers, i) = c)
              ELSE c]

\* ord() on one character, up to an order-preserving renumbering
OrdOf == [c \in CharsOf(Ascii) |-> CHOOSE i \in 1..Len(Ascii) : Char(Ascii, i) = c]

\* The least j in lo..hi with P(j), and hi + 1 when there is none (lo <= hi + 1).
FirstIndex(lo, hi, P(_)) ==
  CHOOSE j \in lo..(hi + 1) : (j = hi + 1 \/ P(j)) /\ \A h \in lo..(j - 1) : ~P(h)

RECURSIVE Concat(_, _, _)
\* ''.join(parts[lo..hi]), by halves
Concat(parts, lo, hi) ==
  IF lo > hi THEN ""
  ELSE IF lo = hi THEN parts[lo]
  ELSE LET mid == (lo + hi) \div 2
       IN  Concat(parts, lo, mid) \o Concat(parts, mid + 1, hi)

\* str.lower()
Lower(s) == Concat([j \in 1..Len(s) |-> LowerOf[Char(s, j)]], 1, Len(s))

\* a < b on Python strings (lexicographic by code point), as sorted() uses it
StrLess(a, b) ==
  LET n == IF Len(a) < Len(b) THEN Len(a) ELSE Len(b)
      d == FirstIndex(1, n, LAMBDA j : Char(a, j) # Char(b, j))
  IN  IF d > n THEN Len(a) < Len(b) ELSE OrdOf[Char(a, d)] < OrdOf[Char(b, d)]

\* s[i:] for a 1-based i
From(s, i) == SubSeq(s, i, Len(s))

\* s.startswith(p)
StartsWith(s, p) == Len(p) <= Len(s) /\ SubSeq(s, 1, Len(p)) = p

\* s.endswith(p)
EndsWith(s, p) == Len(p) <= Len(s) /\ SubSeq(s, Len(s) - Len(p) + 1, Len(s)) = p

\* (p in s) on Python strings
Contains(s, p) == \E i \in 1..(Len(s) - Len(p) + 1) : SubSeq(s, i, i + Len(p) - 1) = p

\* The number of consecutive characters of s from index i on that are in set C.
RunLen(s, i, C) ==
  IF i > Len(s) THEN 0
  ELSE FirstIndex(i, Len(s), LAMBDA j : Char(s, j) \notin C) - i

\* The number of consecutive characters of s from index i backwards that are in C.
BackRunLen(s, i, C) ==
  IF i < 1 THEN 0
  ELSE FirstIndex(0, i - 1, LAMBDA k : Char(s, i - k) \notin C)

\* str.strip()
Strip(s) ==
  LET a == RunLen(s, 1, SpaceSet)
      b == BackRunLen(s, Len(s), SpaceSet)
  IN  IF a = Len(s) THEN "" ELSE SubSeq(s, a + 1, Len(s) - b)

\* re.sub(r'\s+', ' ', s): the first character of a whitespace run becomes ' ',
\* the others go
CollapseRuns(s) ==
  Concat([j \in 1..Len(s) |->
            IF Char(s, j) \notin SpaceSet THEN Char(s, j)
            ELSE IF j > 1 /\ Char(s, j - 1) \in SpaceSet THEN ""
            ELSE " "],
         1, Len(s))

RECURSIVE Split(_)
\* str.split(): the maximal runs of non-whitespace characters, in order
Split(s) ==
  LET a == RunLen(s, 1, SpaceSet)
      n == RunLen(s, a + 1, NonSpaceSet)
  IN  IF a = Len(s) THEN <<>>
      ELSE <<SubSeq(s, a + 1, a + n)>> \o Split(From(s, a + n + 1))

----------------------------------------------------------------------------
(* clean_fighter_name                                                      *)

\* re.sub(r'^#\d+\s+', '', s)
StripRank(s) ==
  LET d == RunLen(s, 2, DigitSet)
      w == RunLen(s, 2 + d, SpaceSet)
  IN  IF StartsWith(s, "#") /\ d >= 1 /\ w >= 1 THEN From(s, 2 + d + w) ELSE s

\* re.sub(r'^C\s+', '', s)
StripChampion(s) ==
  LET w == RunLen(s, 2, SpaceSet)
  IN  IF StartsWith(s, "C") /\ w >= 1 THEN From(s, 2 + w) ELSE s

prefix_keywords == <<"Live now", "Live", "LIVE NOW", "LIVE", "Card", "Method", "Main Card", "Main">>

suffix_keywords == <<"Round", "Round Time", "Time", "Follow live", "Follow", "LIVE NOW", "LIVE", "now">>

\* re.sub(r'^' + re.escape(keyword) + r'\s+', '', s, flags=re.I)
StripPrefix(s, keyword) ==
  LET k == Len(keyword)
      w == RunLen(s, k + 1, SpaceSet)
  IN  IF k <= Len(s) /\ Lower(SubSeq(s, 1, k)) = Lower(keyword) /\ w >= 1
      THEN From(s, k + w + 1)
      ELSE s

\* re.sub(r'\s+' + re.escape(keyword) + r'$', '', s, flags=re.I)
StripSuffix(s, keyword) ==
  LET k == Len(keyword)
      w == BackRunLen(s, Len(s) - k, SpaceSet)
  IN  IF k <= Len(s) /\ Lower(SubSeq(s, Len(s) - k + 1, Len(s))) = Lower(keyword) /\ w >= 1
      THEN SubSeq(s, 1, Len(s) - k - w)
      ELSE s

RECURSIVE StripPrefixes(_, _)
\* the loop over prefix_keywords, from the i-th keyword on
StripPrefixes(s, i) ==
  IF i > Len(prefix_keywords) THEN s
  ELSE StripPrefixes(StripPrefix(s, prefix_keywords[i]), i + 1)

RECURSIVE StripSuffixes(_, _)
\* the loop over suffix_keywords, from the i-th keyword on
StripSuffixes(s, i) ==
  IF i > Len(suffix_keywords) THEN s
  ELSE StripSuffixes(StripSuffix(s, suffix_keywords[i]), i + 1)

clean_fighter_name(name) ==
  LET n1 == CollapseRuns(Strip(name))
      n2 == StripRank(n1)
      n3 == StripChampion(n2)
      n4 == StripPrefixes(n3, 1)
      n5 == StripSuffixes(n4, 1)
  IN  CollapseRuns(Strip(n5))

----------------------------------------------------------------------------
(* normalize_name_for_matching and names_match                             *)

\* the first word instead of the last
normalize_first_word(name) ==
  LET words == Split(name)
  IN  IF Len(words) >= 1 THEN Lower(words[1]) ELSE Lower(name)

normalize_name_for_matching(name) ==
  LET words == Split(name)
  IN  IF Len(words) >= 1 THEN Lower(words[Len(words)]) ELSE Lower(name)

\* containment alone, without the comparison of the last words
names_match_substring(name1, name2) ==
  \/ Lower(name1) = Lower(name2)
  \/ Contains(Lower(name2), Lower(name1))
  \/ Contains(Lower(name1), Lower(name2))

names_match(name1, name2) ==
  LET name1_lower == Lower(name1)
      name2_lower == Lower(name2)
      shorter == IF Len(name1) < Len(name2) THEN name1 ELSE name2
      longer == IF Len(name1) < Len(name2) THEN name2 ELSE name1
      shorter_words == Split(Lower(shorter))
      longer_words == Split(Lower(longer))
  IN  \/ name1_lower = name2_lower
      \/ /\ Contains(name2_lower, name1_lower) \/ Contains(name1_lower, name2_lower)
         /\ shorter_words # <<>>
         /\ longer_words # <<>>
         /\ shorter_words[Len(shorter_words)] = longer_words[Len(longer_words)]

----------------------------------------------------------------------------
(* The pattern scan of get_fighter_pairs_from_ufc_event:                   *)
(*   \b([A-Z][a-zA-Z\s\-\']{2,50})\s+vs\s+([A-Z][a-zA-Z\s\-\']{2,50})\b    *)

\* the {2,50} repetition bounds of both groups
MinRest == 2
MaxRest == 50

Min(a, b) == IF a < b THEN a ELSE b

\* whether index i of t holds a \w character (FALSE outside the string)
WordAt(t, i) == i >= 1 /\ i <= Len(t) /\ Char(t, i) \in WordSet

\* \b just before index i of t
Boundary(t, i) == WordAt(t, i - 1) # WordAt(t, i)

\* Greedy repetition with backtracking: the largest n in MinRest..n0 with P(n),
\* and 0 when there is none.
Greedy(n0, P(_)) ==
  IF n0 < MinRest THEN 0
  ELSE LET k == FirstIndex(0, n0 - MinRest, LAMBDA j : P(n0 - j))
       IN  IF k > n0 - MinRest THEN 0 ELSE n0 - k

\* The greedy {2,50} of group 2, whose [A-Z] is at index s: the largest n <= n0
\* with \b after s + n; 0 when there is none.
Group2Rest(t, s, n0) == Greedy(n0, LAMBDA n : Boundary(t, s + 1 + n))

\* What follows group 1 when group 1 ends just before index q:  \s+vs\s+([A-Z]...)\b
\* Both \s+ take their whole run, since 'v' and [A-Z] are not whitespace.
\* start: the index of group 2's first character, rest: the length of its {2,50}.
AfterGroup1(t, q) ==
  LET r1 == RunLen(t, q, SpaceSet)
      v == q + r1
      r2 == RunLen(t, v + 2, SpaceSet)
      s == v + 2 + r2
      n == IF s <= Len(t) /\ Char(t, s) \in UpperSet
           THEN Group2Rest(t, s, Min(MaxRest, RunLen(t, s + 1, NameSet)))
           ELSE 0
  IN  [ok |-> r1 >= 1 /\ SubSeq(t, v, v + 1) = "vs" /\ r2 >= 1 /\ n >= MinRest,
       start |-> s, rest |-> n]

\* The greedy {2,50} of group 1, whose [A-Z] is at index p: the largest n <= n0
\* after which the rest of the pattern matches; 0 when there is none.
Group1Rest(t, p, n0) == Greedy(n0, LAMBDA n : AfterGroup1(t, p + 1 + n).ok)

\* One attempt of the pattern at index p of t. next: the index after the match.
MatchAt(t, p) ==
  LET n1 == IF Boundary(t, p) /\ Char(t, p) \in UpperSet
            THEN Group1Rest(t, p, Min(MaxRest, RunLen(t, p + 1, NameSet)))
            ELSE 0
      a == AfterGroup1(t, p + 1 + n1)
  IN  IF n1 = 0 THEN [ok |-> FALSE, groups |-> <<"", "">>, next |-> p + 1]
      ELSE [ok |-> TRUE,
            groups |-> <<SubSeq(t, p, p + n1), SubSeq(t, a.start, a.start + a.rest)>>,
            next |-> a.start + a.rest + 1]

RECURSIVE FindAll(_, _)
\* pattern.findall(t), scanning from index p: the leftmost non-overlapping matches.
\* An attempt can succeed only where \b[A-Z] does, so the scan goes from one such
\* index to the next.
FindAll(t, p) ==
  IF p > Len(t) THEN <<>>
  ELSE LET s == FirstIndex(p, Len(t),
                           LAMBDA j : Char(t, j) \in UpperSet /\ Boundary(t, j))
           m == MatchAt(t, s)
       IN  IF s > Len(t) THEN <<>>
           ELSE IF m.ok THEN <<m.groups>> \o FindAll(t, m.next)
           ELSE FindAll(t, s + 1)

----------------------------------------------------------------------------
(* The validity filter.                                                    *)

MinNameLen == 5
MaxNameLen == 40

\* r'^(vs|odds|Flag)$' and the country names of the second pattern
ExcludedExact == {"vs", "odds", "Flag", "United States", "England", "Brazil", "China",
                  "Russia", "Dominican Republic", "Lithuania", "Cameroon"}

\* the alternatives of the third pattern, r'.*(Title|...).*'
ExcludedKeywords == {"Title", "Bout", "Interim", "Women", "Lightweight", "Bantamweight",
                     "Heavyweight", "Featherweight", "Light Heavyweight", "Middleweight",
                     "Flyweight", "Fight Card"}

\* s up to '$': '$' matches at the end of s or just before a final newline
BeforeDollar(s) == {s} \cup (IF EndsWith(s, "\n") THEN {SubSeq(s, 1, Len(s) - 1)} ELSE {})

\* the first line of s: '.' does not match a newline
FirstLine(s) == SubSeq(s, 1, RunLen(s, 1, NonNewlineSet))

\* re.I: the alternatives, lowercased
ExcludedExactLower == {Lower(x) : x \in ExcludedExact}

ExcludedKeywordsLower == {Lower(k) : k \in ExcludedKeywords}

\* any(re.match(pattern, f, re.I) for pattern in exclude_patterns)
IsExcluded(f) ==
  LET whole == BeforeDollar(Lower(f))
      line == Lower(FirstLine(f))
  IN  \/ \E x \in ExcludedExactLower : x \in whole
      \/ \E k \in ExcludedKeywordsLower : Contains(line, k)

\* re.match(r'^[A-Z][a-zA-Z\s\-\']+$', f)
IsProperName(f) ==
  /\ Len(f) >= 2
  /\ Head(f) \in UpperSet
  /\ \E g \in BeforeDollar(f) : Len(g) >= 2 /\ RunLen(g, 2, NameSet) = Len(g) - 1

\* the length and the shape, without exclude_patterns
is_valid_without_exclusions(f) ==
  /\ Len(f) >= MinNameLen
  /\ Len(f) <= MaxNameLen
  /\ IsProperName(f)

\* valid1 / valid2
is_valid(f) ==
  /\ Len(f) >= MinNameLen
  /\ Len(f) <= MaxNameLen
  /\ ~IsExcluded(f)
  /\ IsProperName(f)

----------------------------------------------------------------------------
(* The aggregation: seen_pairs is a dict, modelled as the sequence of its  *)
(* items [key, pair] in insertion order.                                   *)

\* the key without sorted()
PairKeyUnsorted(f1, f2) ==
  <<normalize_name_for_matching(f1), normalize_name_for_matching(f2)>>

\* tuple(sorted([normalize_name_for_matching(f1), normalize_name_for_matching(f2)]))
PairKey(f1, f2) ==
  LET a == normalize_name_for_matching(f1)
      b == normalize_name_for_matching(f2)
  IN  IF StrLess(b, a) THEN <<b, a>> ELSE <<a, b>>

\* a list of items appended to, instead of a dict
DictSetAppend(d, k, v) == Append(d, [key |-> k, pair |-> v])

\* d[k] = v on a dict: an existing key keeps its position and gets the new value
DictSet(d, k, v) ==
  IF \E j \in 1..Len(d) : d[j].key = k
  THEN [j \in 1..Len(d) |-> IF d[j].key = k THEN [key |-> k, pair |-> v] ELSE d[j]]
  ELSE Append(d, [key |-> k, pair |-> v])

\* list(d.values())
DictValues(d) == [j \in 1..Len(d) |-> d[j].pair]

\* the test of lines 119-120 between the candidate (f1, f2) and a stored pair
PairMatches(f1, f2, existing_pair) ==
  \/ names_match(f1, existing_pair[1]) /\ names_match(f2, existing_pair[2])
  \/ names_match(f1, existing_pair[2]) /\ names_match(f2, existing_pair[1])

\* The scan over seen_pairs.items(): the index of the first matching item, 0 for
\* matched_key = None.
FirstMatch(d, f1, f2) ==
  IF \E j \in 1..Len(d) : PairMatches(f1, f2, d[j].pair)
  THEN CHOOSE j \in 1..Len(d) :
         /\ PairMatches(f1, f2, d[j].pair)
         /\ \A h \in 1..(j - 1) : ~PairMatches(f1, f2, d[h].pair)
  ELSE 0

unwanted_words == {"live", "round", "method", "card", "follow", "time"}

\* any(word in a.lower() or word in b.lower() for word in [...])
HasUnwanted(pair) ==
  \E word \in unwanted_words :
    Contains(Lower(pair[1]), word) \/ Contains(Lower(pair[2]), word)

\* len(a.split()) + len(b.split())
WordCount(pair) == Len(Split(pair[1])) + Len(Split(pair[2]))

\* len(a) + len(b)
TotalLen(pair) == Len(pair[1]) + Len(pair[2])

\* more words, then more characters, without the test of the unwanted words
PrefersLonger(current, existing) ==
  \/ WordCount(current) > WordCount(existing)
  \/ WordCount(current) = WordCount(existing) /\ TotalLen(current) > TotalLen(existing)

\* The if/elif of lines 145-151: whether the candidate replaces the stored pair.
PrefersCurrent(current, existing) ==
  IF ~HasUnwanted(current) /\ HasUnwanted(existing) THEN TRUE
  ELSE IF HasUnwanted(current) = HasUnwanted(existing)
       THEN IF WordCount(current) > WordCount(existing) THEN TRUE
            ELSE WordCount(current) = WordCount(existing)
                 /\ TotalLen(current) > TotalLen(existing)
       ELSE FALSE

----------------------------------------------------------------------------
(* The inputs: the flattened text of the event page.                       *)

\* "A vs B" mentions as the event page shows them
Mentions == {"#4 Justin Gaethje vs Max Holloway",
             "Live now Gaethje vs Holloway",
             "United States vs Brazil",
             "Max Holloway vs Dustin Gaethje",
             "Method Card Gaethje vs Holloway",
             "Main Live Card Gaethje vs Holloway",
             "Holloway vs Justin Gaethje Round",
             "Gaethje vs Max Holloway",
             "C Jon Jones vs Tom Aspinall"}

\* what soup.get_text(separator=" ") leaves between two mentions
Separators == {" ", " | "}

\* the largest number of mentions on a page
MaxMentions == 2

RECURSIVE JoinWith(_, _)
\* sep.join(ms)
JoinWith(ms, sep) ==
  IF Len(ms) = 0 THEN ""
  ELSE IF Len(ms) = 1 THEN ms[1]
  ELSE ms[1] \o sep \o JoinWith(Tail(ms), sep)

Pages ==
  {""} \cup {JoinWith(ms, sep) :
               ms \in UNION {[1..n -> Mentions] : n \in 1..MaxMentions},
               sep \in Separators}

----------------------------------------------------------------------------
(* The script: get_fighter_pairs_from_ufc_event(event_url), the printing   *)
(* of the pairs, and the spreadsheet.                                      *)

VARIABLES
  page,          \* what the server holds for event_url, flattened to text
  pc,            \* where the script is
  text_content,  \* soup.get_text(separator=" ")
  matches,       \* pattern.findall(text_content)
  next_match,    \* the index in matches of the loop's next match
  seen_pairs,    \* the dict of the aggregation loop, as its items in order
  fight_pairs,   \* the module-level fight_pairs
  printed,       \* the lines printed so far
  excel_calls,   \* the argument lists create_excel_file was called with
  args,          \* the arguments of a function called on its own
  rets           \* the values such calls returned, in order

vars == <<page, pc, text_content, matches, next_match, seen_pairs, fight_pairs,
          printed, excel_calls, args, rets>>

script_vars == <<page, pc, text_content, matches, next_match, seen_pairs,
                 fight_pairs, printed, excel_calls>>

output_file == "ufc_324.xlsx"

\* the state of the script before event_url is requested
ScriptStart ==
  /\ pc = "fetch"
  /\ text_content = ""
  /\ matches = <<>>
  /\ next_match = 1
  /\ seen_pairs = <<>>
  /\ fight_pairs = <<>>
  /\ printed = <<>>
  /\ excel_calls = <<>>

Init ==
  /\ page \in Pages
  /\ ScriptStart
  /\ args = <<>>
  /\ rets = <<>>

\* requests.get and get_text succeed
FetchPage ==
  /\ pc = "fetch"
  /\ text_content' = page
  /\ pc' = "scan"
  /\ UNCHANGED <<page, matches, next_match, seen_pairs, fight_pairs, printed,
                 excel_calls, args, rets>>

\* requests.get raises: nothing catches it, the script ends with the error
FetchFails ==
  /\ pc = "fetch"
  /\ pc' = "failed"
  /\ UNCHANGED <<page, text_content, matches, next_match, seen_pairs, fight_pairs,
                 printed, excel_calls, args, rets>>

\* matches = pattern.findall(text_content); seen_pairs = {}
ScanText ==
  /\ pc = "scan"
  /\ matches' = FindAll(text_content, 1)
  /\ next_match' = 1
  /\ seen_pairs' = <<>>
  /\ pc' = "loop"
  /\ UNCHANGED <<page, text_content, fight_pairs, printed, excel_calls, args, rets>>

\* fighter1, fighter2 of the loop's next match
Cleaned(match) ==
  <<clean_fighter_name(Strip(match[1])), clean_fighter_name(Strip(match[2]))>>

Current == Cleaned(matches[next_match])

InLoop == pc = "loop" /\ next_match <= Len(matches)

CurrentValid == is_valid(Current[1]) /\ is_valid(Current[2])

\* matched_key is seen_pairs[MatchedIndex].key; 0 stands for None
MatchedIndex == FirstMatch(seen_pairs, Current[1], Current[2])

\* an iteration whose match fails the validity filter
SkipInvalid ==
  /\ InLoop
  /\ ~CurrentValid
  /\ next_match' = next_match + 1
  /\ UNCHANGED <<page, pc, text_content, matches, seen_pairs, fight_pairs, printed,
                 excel_calls, args, rets>>

\* an iteration with matched_key None: seen_pairs[pair_key] = (fighter1, fighter2)
InsertPair ==
  /\ InLoop
  /\ CurrentValid
  /\ MatchedIndex = 0
  /\ seen_pairs' = DictSet(seen_pairs, PairKey(Current[1], Current[2]), Current)
  /\ next_match' = next_match + 1
  /\ UNCHANGED <<page, pc, text_content, matches, fight_pairs, printed, excel_calls,
                 args, rets>>

\* an iteration with a matched_key whose pair the candidate replaces
ReplacePair ==
  /\ InLoop
  /\ CurrentValid
  /\ MatchedIndex # 0
  /\ PrefersCurrent(Current, seen_pairs[MatchedIndex].pair)
  /\ seen_pairs' = DictSet(seen_pairs, seen_pairs[MatchedIndex].key, Current)
  /\ next_match' = next_match + 1
  /\ UNCHANGED <<page, pc, text_content, matches, fight_pairs, printed, excel_calls,
                 args, rets>>

\* an iteration with a matched_key whose pair is kept
KeepPair ==
  /\ InLoop
  /\ CurrentValid
  /\ MatchedIndex # 0
  /\ ~PrefersCurrent(Current, seen_pairs[MatchedIndex].pair)
  /\ next_match' = next_match + 1
  /\ UNCHANGED <<page, pc, text_content, matches, seen_pairs, fight_pairs, printed,
                 excel_calls, args, rets>>

\* fight_pairs = list(seen_pairs.values()), returned to the module level
ReturnPairs ==
  /\ pc = "loop"
  /\ next_match > Len(matches)
  /\ fight_pairs' = DictValues(seen_pairs)
  /\ pc' = "print"
  /\ UNCHANGED <<page, text_content, matches, next_match, seen_pairs, printed,
                 excel_calls, args, rets>>

\* print("Fights found:") and one line per pair
PrintFights ==
  /\ pc = "print"
  /\ printed' = <<"Fights found:">> \o
                [j \in 1..Len(fight_pairs) |->
                   fight_pairs[j][1] \o " vs " \o fight_pairs[j][2]]
  /\ pc' = "save"
  /\ UNCHANGED <<page, text_content, matches, next_match, seen_pairs, fight_pairs,
                 excel_calls, args, rets>>

\* "if fight_pairs is not None": true of the empty list too
NotNone(list) == TRUE

\* if fight_pairs: a list is true when it is not empty
Truthy(list) == list # <<>>

\* create_excel_file(fight_pairs, output_file) and the count
SaveExcel ==
  /\ pc = "save"
  /\ Truthy(fight_pairs)
  /\ excel_calls' = Append(excel_calls, <<fight_pairs, output_file>>)
  /\ printed' = printed \o <<"Excel file created", "Total fights saved">>
  /\ pc' = "done"
  /\ UNCHANGED <<page, text_content, matches, next_match, seen_pairs, fight_pairs,
                 args, rets>>

\* the else branch
NoFights ==
  /\ pc = "save"
  /\ ~Truthy(fight_pairs)
  /\ printed' = Append(printed, "No fights found to save.")
  /\ pc' = "done"
  /\ UNCHANGED <<page, text_content, matches, next_match, seen_pairs, fight_pairs,
                 excel_calls, args, rets>>

Next ==
  \/ FetchPage
  \/ FetchFails
  \/ ScanText
  \/ SkipInvalid
  \/ InsertPair
  \/ ReplacePair
  \/ KeepPair
  \/ ReturnPairs
  \/ PrintFights
  \/ SaveExcel
  \/ NoFights

Spec == Init /\ [][Next]_vars

----------------------------------------------------------------------------
(* names_match called on its own, on every pair of short names.            *)

\* the characters of the short names: two letters, one of them in both cases,
\* and the blank
NameAlphabet == {"a", "b", "B", " "}

\* the largest length of a short name
MaxChars == 3

RECURSIVE StringsUpTo(_, _)
\* the strings over the alphabet of at most n characters
StringsUpTo(alphabet, n) ==
  IF n = 0 THEN {""}
  ELSE LET shorter == StringsUpTo(alphabet, n - 1)
       IN  shorter \cup {s \o c : s \in shorter, c \in alphabet}

NameInputs ==
  StringsUpTo(NameAlphabet, MaxChars)
    \cup {"Gaethje", "Justin Gaethje", "Max Holloway", "Jon Jones"}

\* the script does not run while a function is called on its own
ScriptIdle ==
  /\ page = ""
  /\ pc = "call"
  /\ text_content = ""
  /\ matches = <<>>
  /\ next_match = 1
  /\ seen_pairs = <<>>
  /\ fight_pairs = <<>>
  /\ printed = <<>>
  /\ excel_calls = <<>>

InitMatch ==
  /\ ScriptIdle
  /\ args \in NameInputs \X NameInputs
  /\ rets = <<>>

CallNamesMatch ==
  /\ pc = "call"
  /\ Len(args) = 2
  /\ rets = <<>>
  /\ rets' = <<names_match(args[1], args[2])>>
  /\ UNCHANGED <<script_vars, args>>

NextMatch == CallNamesMatch

SpecMatch == InitMatch /\ [][NextMatch]_vars

----------------------------------------------------------------------------
(* clean_fighter_name called on its own, and again on its own result.      *)

\* a rank marker, the champion marker, keywords of both lists, name words
RawTokens == {"#4", "C", "Live", "LIVE", "now", "Card", "Main", "Method",
              "Round", "Time", "Follow", "Jon", "Jones"}

\* the largest number of tokens of a raw string
MaxTokens == 3

RawInputs ==
  {JoinWith(ts, " ") : ts \in UNION {[1..n -> RawTokens] : n \in 0..MaxTokens}}

InitClean ==
  /\ ScriptIdle
  /\ args \in {<<x>> : x \in RawInputs}
  /\ rets = <<>>

CleanOnce ==
  /\ pc = "call"
  /\ Len(args) = 1
  /\ rets = <<>>
  /\ rets' = <<clean_fighter_name(args[1])>>
  /\ UNCHANGED <<script_vars, args>>

CleanAgain ==
  /\ pc = "call"
  /\ Len(args) = 1
  /\ Len(rets) = 1
  /\ rets' = Append(rets, clean_fighter_name(rets[1]))
  /\ UNCHANGED <<script_vars, args>>

NextClean == CleanOnce \/ CleanAgain

SpecClean == InitClean /\ [][NextClean]_vars

----------------------------------------------------------------------------
(* The properties.                                                         *)

\* fight_pairs holds the final output
FinalOutput == pc \in {"print", "save", "done"}

\* the valid cleaned pairs of the page's matches: what the loop processes
ProcessedPairs ==
  {c \in {Cleaned(matches[j]) : j \in 1..Len(matches)} : is_valid(c[1]) /\ is_valid(c[2])}

\* the two surnames of a pair, in no order
Surnames(pair) ==
  {normalize_name_for_matching(pair[1]), normalize_name_for_matching(pair[2])}

\* the entries of the output that stand for p1 or p2
Representing(p1, p2) ==
  {j \in 1..Len(fight_pairs) :
     \/ PairMatches(p1[1], p1[2], fight_pairs[j])
     \/ PairMatches(p2[1], p2[2], fight_pairs[j])}

\* C1: in the final output, two processed pairs that match each other (in one of
\* the two orientations) are represented by at most one entry: at most one entry
\* has their surnames, and at most one entry matches one of them.
C1_Deduplication ==
  pc = "done" =>
    LET processed == ProcessedPairs
    IN  \A p1 \in processed : \A p2 \in processed :
          PairMatches(p1[1], p1[2], p2) =>
            /\ Cardinality({j \in 1..Len(fight_pairs) :
                              Surnames(fight_pairs[j]) = Surnames(p1)}) <= 1
            /\ Cardinality(Representing(p1, p2)) <= 1

\* Two different mentions of one pairing were processed and one entry stands for both.
C1_Witness ==
  /\ pc = "done"
  /\ \E p1 \in ProcessedPairs : \E p2 \in ProcessedPairs :
       /\ p1 # p2
       /\ PairMatches(p1[1], p1[2], p2)
       /\ Cardinality(Representing(p1, p2)) = 1
       /\ Len(fight_pairs) = 1

\* the pages with the two mentions of the Gaethje-Holloway fight and nothing else
MergePages ==
  {JoinWith(<<"#4 Justin Gaethje vs Max Holloway", "Live now Gaethje vs Holloway">>, sep) :
     sep \in Separators}
  \cup
  {JoinWith(<<"Live now Gaethje vs Holloway", "#4 Justin Gaethje vs Max Holloway">>, sep) :
     sep \in Separators}

\* C2: a page with "#4 Justin Gaethje vs Max Holloway" and "Live now Gaethje vs
\* Holloway", in either order, ends with the one pair (Justin Gaethje, Max Holloway).
C2_EndToEndMerge ==
  (pc = "done" /\ page \in MergePages) =>
    fight_pairs = <<<<"Justin Gaethje", "Max Holloway">>>>

\* C3: cleaning a cleaned name again returns it unchanged.
C3_CleanIdempotent == Len(rets) = 2 => rets[2] = rets[1]

\* an iteration whose valid candidate matches an entry
MatchedStep == InLoop /\ CurrentValid /\ MatchedIndex # 0

\* an iteration whose valid candidate matches no entry
UnmatchedStep == InLoop /\ CurrentValid /\ MatchedIndex = 0

\* how many of the noise words occur in one of the two names, ignoring case
NoiseCount(pair) ==
  Cardinality({w \in {"live", "round", "method", "card", "follow", "time"} :
                 Contains(Lower(pair[1]), w) \/ Contains(Lower(pair[2]), w)})

\* the priority order with the noise words counted
PrefersByNoiseCount(c, e) ==
  \/ NoiseCount(c) < NoiseCount(e)
  \/ NoiseCount(c) = NoiseCount(e) /\ WordCount(c) > WordCount(e)
  \/ /\ NoiseCount(c) = NoiseCount(e)
     /\ WordCount(c) = WordCount(e)
     /\ TotalLen(c) > TotalLen(e)

\* the priority order with the noise words only present or absent
PrefersByNoisePresence(c, e) ==
  \/ NoiseCount(c) = 0 /\ NoiseCount(e) > 0
  \/ (NoiseCount(c) = 0) = (NoiseCount(e) = 0) /\ WordCount(c) > WordCount(e)
  \/ /\ (NoiseCount(c) = 0) = (NoiseCount(e) = 0)
     /\ WordCount(c) = WordCount(e)
     /\ TotalLen(c) > TotalLen(e)

\* C4, as claimed: a matching candidate replaces the stored pair exactly when it has
\* fewer noise-word occurrences, or as many and more words, or as many of both and
\* more characters; otherwise the stored pair is kept.
C4_ReplaceByNoiseCount ==
  [][MatchedStep =>
       seen_pairs' = [seen_pairs EXCEPT ![MatchedIndex].pair =
                        IF PrefersByNoiseCount(Current, @) THEN Current ELSE @]]_vars

\* C4, amended: a matching candidate replaces the stored pair exactly when it holds
\* no noise word and the stored pair holds one, or both or neither hold one and the
\* candidate has more words, or as many words and more characters; otherwise the
\* stored pair is kept. Nothing else of the mapping changes.
C4_ReplaceByNoisePresence ==
  [][MatchedStep =>
       seen_pairs' = [seen_pairs EXCEPT ![MatchedIndex].pair =
                        IF PrefersByNoisePresence(Current, @) THEN Current ELSE @]]_vars

\* After two iterations the second candidate, which matched the first one's entry
\* with as many words and no more noise, has replaced it for being longer.
C4_Witness ==
  /\ pc = "loop"
  /\ next_match = 3
  /\ Len(seen_pairs) = 1
  /\ LET first == Cleaned(matches[1])
         second == Cleaned(matches[2])
     IN  /\ is_valid(first[1]) /\ is_valid(first[2])
         /\ is_valid(second[1]) /\ is_valid(second[2])
         /\ PairMatches(second[1], second[2], first)
         /\ first # second
         /\ (NoiseCount(first) = 0) = (NoiseCount(second) = 0)
         /\ WordCount(first) = WordCount(second)
         /\ TotalLen(second) > TotalLen(first)
         /\ seen_pairs[1].pair = second

\* the shorter and the longer of two names, by length
ShorterOf(n1, n2) == IF Len(n1) < Len(n2) THEN n1 ELSE n2

LongerOf(n1, n2) == IF Len(n1) < Len(n2) THEN n2 ELSE n1

\* whether n has a whitespace-delimited token at all
HasToken(n) == \E j \in 1..Len(n) : Char(n, j) \notin SpaceSet

\* the last whitespace-delimited token of n, lowercased: what lies between the last
\* whitespace before the last non-whitespace character and that character
LastToken(n) ==
  LET last == CHOOSE j \in 1..Len(n) :
                /\ Char(n, j) \notin SpaceSet
                /\ \A h \in (j + 1)..Len(n) : Char(n, h) \in SpaceSet
      first == CHOOSE j \in 1..last :
                 /\ \A h \in j..last : Char(n, h) \notin SpaceSet
                 /\ (j = 1 \/ Char(n, j - 1) \in SpaceSet)
  IN  Lower(SubSeq(n, first, last))

\* the names match as C5 says
MatchAsClaimed(n1, n2) ==
  \/ Lower(n1) = Lower(n2)
  \/ /\ Contains(Lower(n2), Lower(n1)) \/ Contains(Lower(n1), Lower(n2))
     /\ HasToken(n1)
     /\ HasToken(n2)
     /\ LastToken(ShorterOf(n1, n2)) = LastToken(LongerOf(n1, n2))

\* C5: names_match(n1, n2) is true iff the names are equal ignoring case, or one
\* lowercased is a substring of the other lowercased and the last token of the
\* shorter equals the last token of the longer (both have one), lowercased; it is
\* true of (Gaethje, Justin Gaethje) and (Jon Jones, Jon Jones) and false of
\* (Justin Gaethje, Max Holloway).
C5_NamesMatchResult ==
  Len(rets) = 1 =>
    /\ rets[1] = MatchAsClaimed(args[1], args[2])
    /\ args = <<"Gaethje", "Justin Gaethje">> => rets[1] = TRUE
    /\ args = <<"Jon Jones", "Jon Jones">> => rets[1] = TRUE
    /\ args = <<"Justin Gaethje", "Max Holloway">> => rets[1] = FALSE

\* names_match has returned TRUE for a surname and the full name that ends with it.
C5_Witness == args = <<"Gaethje", "Justin Gaethje">> /\ rets = <<TRUE>>

\* a name as C6 wants every stored name to be
ValidAsClaimed(f) ==
  /\ Len(f) \in 5..40
  /\ Char(f, 1) \in UpperSet
  /\ \A j \in 2..Len(f) : Char(f, j) \in UpperSet \cup LowerSet \cup SpaceSet \cup {"-", "'"}
  /\ Lower(f) \notin {"vs", "odds", "flag", "united states", "england", "brazil", "china",
                      "russia", "dominican republic", "lithuania", "cameroon"}
  /\ \A k \in {"title", "bout", "interim", "women", "lightweight", "bantamweight",
               "heavyweight", "featherweight", "light heavyweight", "middleweight",
               "flyweight", "fight card"} : ~Contains(Lower(f), k)

AllValidAsClaimed(pairs) ==
  \A j \in 1..Len(pairs) : ValidAsClaimed(pairs[j][1]) /\ ValidAsClaimed(pairs[j][2])

\* C6: after every step both names of every stored pair, and of every pair of the
\* output, are valid; an iteration whose match has an invalid side leaves the
\* mapping as it was; and the page "United States vs Brazil" ends with no pair.
C6_StoredPairsValid ==
  [][/\ AllValidAsClaimed(DictValues(seen_pairs'))
     /\ AllValidAsClaimed(fight_pairs')
     /\ (InLoop /\ ~(ValidAsClaimed(Current[1]) /\ ValidAsClaimed(Current[2])))
          => seen_pairs' = seen_pairs
     /\ (page = "United States vs Brazil" /\ pc' = "done") => fight_pairs' = <<>>]_vars

\* The page "United States vs Brazil" was scanned, its one match was dropped, and
\* the run ended with no pair.
C6_Witness ==
  /\ page = "United States vs Brazil"
  /\ pc = "done"
  /\ matches = <<<<"United States", "Brazil">>>>
  /\ next_match = 2
  /\ seen_pairs = <<>>
  /\ fight_pairs = <<>>

\* C7: at the end of a run create_excel_file has been called iff the list of pairs
\* is not empty (and then once, with that list); with an empty list, as for an
\* empty page, no file is made, the last line printed is "No fights found to
\* save.", and the run ends normally: only the fetch ends a run with an error.
C7_EmptyResultPath ==
  /\ pc = "done" => (excel_calls # <<>> <=> fight_pairs # <<>>)
  /\ excel_calls # <<>> => pc = "done" /\ excel_calls = <<<<fight_pairs, output_file>>>>
  /\ (pc = "done" /\ fight_pairs = <<>>) =>
       printed[Len(printed)] = "No fights found to save."
  /\ (pc = "done" /\ fight_pairs # <<>>) =>
       \A j \in 1..Len(printed) : printed[j] # "No fights found to save."
  /\ (FinalOutput /\ text_content = "") => fight_pairs = <<>>
  /\ (pc = "save" /\ fight_pairs = <<>>) => ENABLED NoFights
  /\ pc = "failed" => (text_content = "" /\ matches = <<>> /\ printed = <<>>)

\* A run on the empty page has ended normally with the message and no file.
C7_Witness ==
  /\ page = ""
  /\ pc = "done"
  /\ fight_pairs = <<>>
  /\ excel_calls = <<>>
  /\ printed = <<"Fights found:", "No fights found to save.">>

\* C8: an iteration whose valid candidate matches no entry appends the candidate
\* under its sorted surnames and leaves every other entry as it was; and a stored
\* pair changes only when a matching candidate replaces it by the priority rule.
C8_InsertAddsEntry ==
  [][/\ UnmatchedStep =>
          seen_pairs' = Append(seen_pairs,
                               [key |-> PairKey(Current[1], Current[2]), pair |-> Current])
     /\ \A j \in 1..Len(seen_pairs) :
          (j <= Len(seen_pairs') /\ seen_pairs'[j].pair # seen_pairs[j].pair) =>
            /\ MatchedStep
            /\ j = MatchedIndex
            /\ PrefersCurrent(Current, seen_pairs[j].pair)]_vars

\* the sorted pair of the surnames of a stored pair
SortedSurnames(pair) ==
  LET a == normalize_name_for_matching(pair[1])
      b == normalize_name_for_matching(pair[2])
  IN  IF StrLess(a, b) \/ a = b THEN <<a, b>> ELSE <<b, a>>

\* C9: the key of every entry of seen_pairs is the sorted pair of the surnames of
\* the pair stored under it.
C9_KeyMatchesStoredPair ==
  \A j \in 1..Len(seen_pairs) : seen_pairs[j].key = SortedSurnames(seen_pairs[j].pair)

\* After two iterations the second candidate, which matched the first one's entry
\* with its names the other way round, has replaced it under the key of the first.
C9_Witness ==
  /\ pc = "loop"
  /\ next_match = 3
  /\ Len(seen_pairs) = 1
  /\ LET first == Cleaned(matches[1])
         second == Cleaned(matches[2])
     IN  /\ is_valid(first[1]) /\ is_valid(first[2])
         /\ first # second
         /\ names_match(second[1], first[2])
         /\ names_match(second[2], first[1])
         /\ ~names_match(second[1], first[1])
         /\ seen_pairs[1].pair = second
         /\ seen_pairs[1].key = SortedSurnames(first)

\* valid names a later mention could use
CandidateNames == {"Gaethje", "Justin Gaethje", "Dustin Gaethje", "Holloway",
                   "Max Holloway", "Jon Jones", "Tom Aspinall"}

\* those names paired
NamedPairs ==
  {c \in CandidateNames \X CandidateNames : is_valid(c[1]) /\ is_valid(c[2])}

\* valid cleaned pairs: those names paired, and the page's own
CandidatePairs == NamedPairs \cup ProcessedPairs

\* the entries of seen_pairs that the candidate c matches
MatchingEntries(c) ==
  {j \in 1..Len(seen_pairs) : PairMatches(c[1], c[2], seen_pairs[j].pair)}

\* C10: during the loop no valid candidate matches two entries of seen_pairs.
C10_UniqueMatch ==
  (pc = "loop" /\ Len(seen_pairs) >= 2) =>
    \A c \in CandidatePairs : Cardinality(MatchingEntries(c)) <= 1

\* The loop holds two entries and a valid candidate matches exactly one of them.
C10_Witness ==
  /\ pc = "loop"
  /\ Len(seen_pairs) = 2
  /\ \E c \in CandidatePairs : Cardinality(MatchingEntries(c)) = 1

====
